---------------------------- MODULE Spec2Model ----------------------------
(***************************************************************************)
(* A model of pyrateview: the command-line entry point (main.py), the      *)
(* data-file wrappers (datafile.py), the action helpers (actions.py), the  *)
(* scene-object builders (things.py) and the numeric utilities (utils.py). *)
(* The host toolkit (paraview.simple) is modelled by the part of its state *)
(* the repository's calls read and write: the proxy registry, the set of   *)
(* proxies shown in the view, the transfer functions, the camera and the   *)
(* screenshots written.                                                    *)
(*                                                                         *)
(* Strings that the code takes apart (paths, registration names) are       *)
(* sequences of tokens, so that concatenation, os.path.join, glob matching *)
(* and the substring test are computed and not assumed.                    *)
(***************************************************************************)
EXTENDS Integers, Sequences, FiniteSets, TLC

VARIABLES
    args,        \* the argparse namespace (main.py: args)
    fs,          \* absolute paths that exist in the file system
    pc,          \* position of the running script
    err,         \* the uncaught exception that ended the script, or NoErr
    cfg,         \* the imported configuration module, or NoCfg
    routine,     \* the plotting routine __main__ has called, or "none"
    queue,       \* movie_frame: the files of the for loop not yet visited
    mov,         \* movie_frame: the SurfaceMovie of the current iteration
    cdf,         \* the CartesianDataFile object, or NoObj
    ret,         \* the last library call: its name, arguments, value returned
    view,        \* host: TRUE once the render view exists
    proxies,     \* host: every source proxy created, by id (its index)
    registered,  \* host: ids of the proxies in the "sources" registry
    shown,       \* host: ids of the proxies visible in the view
    display,     \* host: per proxy id, the Scale of its representation
    tfs,         \* host: the colour and opacity transfer functions
    camera,      \* host: number of ResetCamera calls so far
    screenshots, \* host: the paths SaveScreenshot has written, in order
    stdout,      \* the lines printed
    log,         \* history: the steps of the run, in order
    util         \* the utility function call under examination

vars == <<args, fs, pc, err, cfg, routine, queue, mov, cdf, ret, view,
          proxies, registered, shown, display, tfs, camera, screenshots,
          stdout, log, util>>

pyvars   == <<args, pc, err, cfg, routine, queue, mov, cdf, ret, stdout, log>>
hostvars == <<view, proxies, registered, shown, display, tfs, camera,
              screenshots>>

-----------------------------------------------------------------------------
(* Paths: sequences of tokens. "/" is the separator, "*" the glob wildcard. *)

Cwd == <<"/", "w">>

\* os.path.join(a, b) for two components (posixpath.join)
Join(a, b) ==
    IF b /= <<>> /\ b[1] = "/" THEN b
    ELSE IF a = <<>> \/ a[Len(a)] = "/" THEN a \o b
    ELSE a \o <<"/">> \o b

\* the absolute path a path names, relative paths being resolved at the
\* working directory (what os.path.exists, os.mkdir and the host do)
Abs(p) == Join(Cwd, p)

\* os.path.exists(p) in file system f
Exists(p, f) == Abs(p) \in f

\* fnmatch of one glob pattern against a path; "*" matches any run of
\* tokens that holds no separator, every other token matches itself
RECURSIVE Match(_, _)
Match(pat, s) ==
    IF pat = <<>> THEN s = <<>>
    ELSE IF pat[1] = "*"
         THEN \/ Match(Tail(pat), s)
              \/ s /= <<>> /\ s[1] /= "/" /\ Match(pat, Tail(s))
         ELSE s /= <<>> /\ s[1] = pat[1] /\ Match(Tail(pat), Tail(s))

\* the files of the model's world, as absolute paths
FileA    == <<"/", "w", "/", "a", ".inp">>
FileB    == <<"/", "w", "/", "b", ".inp">>
FileDA   == <<"/", "w", "/", "d", "/", "a", ".inp">>
ConfigPy == <<"/", "w", "/", "config", ".py">>
DataFiles == {FileA, FileB, FileDA}

\* the spellings under which glob can report a file: as the absolute
\* path, or relative to the working directory
Spellings(p) == {p, SubSeq(p, Len(Cwd) + 2, Len(p))}

\* glob(pattern): the spellings of existing files that the pattern matches
Glob(pat, f) ==
    {s \in UNION {Spellings(p) : p \in DataFiles} :
        Abs(s) \in f /\ Match(pat, s)}

\* the order of Python's string comparison on the tokens used here, by
\* the code point of each token's first character
Ord(t) ==
    CASE t = "*"     -> 42
      [] t = ".inp"  -> 46
      [] t = ".png"  -> 46
      [] t = ".py"   -> 46
      [] t = "/"     -> 47
      [] t = "a"     -> 97
      [] t = "b"     -> 98
      [] t = "config" -> 99
      [] t = "d"     -> 100
      [] t = "o"     -> 111
      [] t = "output" -> 111
      [] t = "t"     -> 116
      [] t = "w"     -> 119
      [] t = "x"     -> 120
      [] OTHER       -> 122

RECURSIVE StrLess(_, _)
StrLess(a, b) ==
    IF b = <<>> THEN FALSE
    ELSE IF a = <<>> THEN TRUE
    ELSE IF a[1] = b[1] THEN StrLess(Tail(a), Tail(b))
    ELSE Ord(a[1]) < Ord(b[1])

\* sorted(S) for a set of distinct strings
RECURSIVE Sorted(_)
Sorted(S) ==
    IF S = {} THEN <<>>
    ELSE LET m == CHOOSE x \in S : \A y \in S \ {x} : StrLess(x, y)
         IN  <<m>> \o Sorted(S \ {m})

-----------------------------------------------------------------------------
(* Values of the script.                                                   *)

\* Python's None where a string or a number may stand instead; a number v
\* that may be None is carried as the one-element sequence <<v>>
None == <<>>

NoErr == [by |-> "none", exc |-> "none", msg |-> <<>>]
NoCfg == [loaded |-> FALSE]
NoObj == [made |-> FALSE]
NoRet == [fn |-> "none"]

\* a scale factor as the fraction num/den; 1E-3 is 1/1000
Frac(n, d) == [num |-> n, den |-> d]

\* config.py, with mov_bounds in units of 1e-4
config ==
    [loaded       |-> TRUE,
     mov_bounds   |-> <<-1, 1>>,
     mov_scale    |-> 4,
     scale_data   |-> <<Frac(1, 1000)>>,
     scale_coords |-> <<Frac(1, 1000)>>,
     zero_origin  |-> FALSE,
     resolution   |-> <<2100, 2100>>]

\* the command lines examined
FidChoices ==
    { <<"a", ".inp">>, <<"c", ".inp">>, <<"*", ".inp">>,
      FileA, <<"/", "w", "/", "*", ".inp">>,
      <<"d", "/", "a", ".inp">>, <<"d", "/", "*", ".inp">> }

\* -o: a relative directory, or the default os.path.join(os.getcwd(), "output")
OutputDefault == Join(Cwd, <<"output">>)
OutputChoices == { <<"o">>, OutputDefault }

\* -f: not given, a bare file name, or an absolute path
FidOutChoices == { None, <<"x", ".png">>, <<"/", "t", "/", "x", ".png">> }

\* directories that exist in every world examined
BaseDirs == { <<"/">>, Cwd, <<"/", "w", "/", "d">>, <<"/", "t">> }

ArgsChoices ==
    [fid     : FidChoices,
     cfg_fid : { <<"config", ".py">> },
     movie   : BOOLEAN,
     verbose : BOOLEAN,
     output  : OutputChoices,
     fid_out : FidOutChoices]

-----------------------------------------------------------------------------
(* The host: proxies, registry, view.                                      *)

NoData == [x |-> <<>>, y |-> <<>>, z |-> <<>>, v |-> <<>>]

\* what the host reads from each data file: point coordinates (metres) and
\* one scalar per point
Dataset(file) ==
    CASE file = FileA  -> [x |-> <<1000, 3000>>, y |-> <<2000, 6000>>,
                           z |-> <<-5000, 0>>,   v |-> <<3000, 5000>>]
      [] file = FileB  -> [x |-> <<4000, 2000>>, y |-> <<1000, 1000>>,
                           z |-> <<-2000, -8000>>, v |-> <<7000, 1000>>]
      [] file = FileDA -> [x |-> <<0, 2000>>,    y |-> <<0, 4000>>,
                           z |-> <<0, -4000>>,   v |-> <<2000, 2000>>]
      [] OTHER         -> NoData

\* a source proxy of the host
Proxy(name, kind, file, input, out, props) ==
    [name |-> name, kind |-> kind, file |-> file, input |-> input,
     out |-> out, props |-> props]

\* GetColorTransferFunction / GetOpacityTransferFunction hand out one
\* function per array name, created on first use over the range [0, 1]
FreshTF == <<0, 1>>
NoTF == <<>>

-----------------------------------------------------------------------------
(* main.py: parse_args / check                                             *)

\* check(args) on file system f: the assertion, the output directory, the
\* output file name
check_nofidtest(a, f) ==
    [raised |-> FALSE, msg |-> <<>>,
     fs     |-> f \cup {Abs(a.output)},
     args   |-> [a EXCEPT !.fid_out =
                    IF @ = None THEN a.fid \o <<".png">> ELSE @]]

check(a, f) ==
    IF ~a.movie /\ ~Exists(a.fid, f)
    THEN [raised |-> TRUE, msg |-> a.fid \o <<" does not exist">>,
          fs |-> f, args |-> a]
    ELSE [raised |-> FALSE, msg |-> <<>>,
          fs     |-> f \cup {Abs(a.output)},
          args   |-> [a EXCEPT !.fid_out =
                         IF @ = None THEN a.fid \o <<".png">> ELSE @]]

parse_args ==
    /\ pc = "parse_args"
    /\ LET r == check(args, fs) IN
       IF r.raised
       THEN /\ pc' = "aborted"
            /\ err' = [by |-> "check", exc |-> "AssertionError", msg |-> r.msg]
            /\ UNCHANGED <<args, fs, log>>
       ELSE /\ pc' = "setup"
            /\ args' = r.args
            /\ fs' = r.fs
            /\ log' = Append(log, [ev |-> "parse", file |-> <<>>, path |-> <<>>])
            /\ err' = err
    /\ UNCHANGED <<cfg, routine, queue, mov, cdf, ret, stdout, util>>
    /\ UNCHANGED hostvars

-----------------------------------------------------------------------------
(* main.py: setup                                                          *)

\* the assertion of setup: TRUE when the configuration file is there
setup_noassert(cfg_fid, f) == TRUE

setup_assert(cfg_fid, f) == Exists(cfg_fid, f)

setup ==
    /\ pc = "setup"
    /\ IF setup_assert(args.cfg_fid, fs)
       THEN /\ cfg' = config
            /\ view' = TRUE
            /\ pc' = "main"
            /\ log' = Append(log, [ev |-> "config", file |-> <<>>, path |-> <<>>])
            /\ err' = err
       ELSE /\ pc' = "aborted"
            /\ err' = [by |-> "setup", exc |-> "AssertionError",
                       msg |-> <<"PyrateView requires a valid .py configuration file: ">>
                               \o args.cfg_fid]
            /\ UNCHANGED <<cfg, view, log>>
    /\ UNCHANGED <<args, fs, routine, queue, mov, cdf, ret, stdout, util>>
    /\ UNCHANGED <<proxies, registered, shown, display, tfs, camera, screenshots>>

-----------------------------------------------------------------------------
(* main.py: __main__                                                       *)

\* the routine __main__ calls once parse_args and setup have returned
Dispatched(a) == "movie_frame"

main ==
    /\ pc = "main"
    /\ routine' = Dispatched(args)
    /\ pc' = routine'
    /\ UNCHANGED <<args, fs, err, cfg, queue, mov, cdf, ret, stdout, log, util>>
    /\ UNCHANGED hostvars

-----------------------------------------------------------------------------
(* actions.py: screenshot                                                  *)

\* SaveScreenshot(fid, GetActiveView(), ...): the image of what is shown
\* now, written at fid
screenshot(fid) ==
    /\ screenshots' = Append(screenshots, [path |-> fid, shows |-> shown])
    /\ fs' = fs \cup {Abs(fid)}

-----------------------------------------------------------------------------
(* datafile.py: SurfaceMovie, and main.py: movie_frame                     *)

ReaderName == <<"AVSUCDReader">>

\* SurfaceMovie.__init__(fid): a reader proxy, shown, and the two transfer
\* functions of quantity "a"
SurfaceMovie_init(fid) ==
    LET id == Len(proxies) + 1 IN
    /\ proxies' = Append(proxies,
                         Proxy(ReaderName, "AVSUCDReader", Abs(fid), 0,
                               Dataset(Abs(fid)), None))
    /\ registered' = registered \cup {id}
    /\ shown' = shown \cup {id}
    /\ display' = Append(display, <<1, 1, 1>>)
    /\ tfs' = [lut |-> IF tfs.lut = NoTF THEN FreshTF ELSE tfs.lut,
               pwf |-> IF tfs.pwf = NoTF THEN FreshTF ELSE tfs.pwf]
    /\ mov' = [made |-> TRUE, fid |-> fid, data |-> id, display |-> id]

\* lines 139-143: the verbose count, and the list the for loop walks
movie_frame ==
    /\ pc = "movie_frame"
    /\ stdout' = IF args.verbose
                 THEN Append(stdout, <<Cardinality(Glob(args.fid, fs)),
                                       " movie files found">>)
                 ELSE stdout
    /\ queue' = Sorted(Glob(args.fid, fs))
    /\ pc' = IF queue' = <<>> THEN "done" ELSE "mov_open"
    /\ UNCHANGED <<args, fs, err, cfg, routine, mov, cdf, ret, log, util>>
    /\ UNCHANGED hostvars

\* lines 144-146
movie_open ==
    /\ pc = "mov_open"
    /\ stdout' = IF args.verbose THEN Append(stdout, Head(queue)) ELSE stdout
    /\ SurfaceMovie_init(Head(queue))
    /\ log' = Append(log, [ev |-> "open", file |-> Head(queue), path |-> <<>>])
    /\ pc' = "mov_rescale"
    /\ UNCHANGED <<args, fs, err, cfg, routine, queue, cdf, ret, util>>
    /\ UNCHANGED <<view, camera, screenshots>>

\* lines 149-153
movie_rescale_lutonly ==
    /\ pc = "mov_rescale"
    /\ tfs' = [tfs EXCEPT !.lut = <<cfg.mov_bounds[1], cfg.mov_bounds[2]>>]
    /\ display' = [display EXCEPT ![mov.display] = <<1, 1, cfg.mov_scale>>]
    /\ log' = Append(log, [ev |-> "transform", file |-> mov.fid, path |-> <<>>])
    /\ pc' = "mov_camera"
    /\ UNCHANGED <<args, fs, err, cfg, routine, queue, mov, cdf, ret, stdout, util>>
    /\ UNCHANGED <<view, proxies, registered, shown, camera, screenshots>>

movie_rescale ==
    /\ pc = "mov_rescale"
    /\ tfs' = [lut |-> <<cfg.mov_bounds[1], cfg.mov_bounds[2]>>,
               pwf |-> <<cfg.mov_bounds[1], cfg.mov_bounds[2]>>]
    /\ display' = [display EXCEPT ![mov.display] = <<1, 1, cfg.mov_scale>>]
    /\ log' = Append(log, [ev |-> "transform", file |-> mov.fid, path |-> <<>>])
    /\ pc' = "mov_camera"
    /\ UNCHANGED <<args, fs, err, cfg, routine, queue, mov, cdf, ret, stdout, util>>
    /\ UNCHANGED <<view, proxies, registered, shown, camera, screenshots>>

\* line 159
movie_camera_skipped ==
    /\ pc = "mov_camera"
    /\ pc' = "mov_screenshot"
    /\ UNCHANGED <<args, fs, err, cfg, routine, queue, mov, cdf, ret, stdout, log, util>>
    /\ UNCHANGED hostvars

movie_camera ==
    /\ pc = "mov_camera"
    /\ camera' = camera + 1
    /\ log' = Append(log, [ev |-> "camera", file |-> <<>>, path |-> <<>>])
    /\ pc' = "mov_screenshot"
    /\ UNCHANGED <<args, fs, err, cfg, routine, queue, mov, cdf, ret, stdout, util>>
    /\ UNCHANGED <<view, proxies, registered, shown, display, tfs, screenshots>>

\* lines 160-161, and the next turn of the for loop
movie_screenshot ==
    /\ pc = "mov_screenshot"
    /\ LET path == Join(args.output, mov.fid \o <<".png">>) IN
       /\ screenshot(path)
       /\ log' = Append(log, [ev |-> "save", file |-> mov.fid, path |-> path])
    /\ queue' = Tail(queue)
    /\ pc' = IF queue' = <<>> THEN "done" ELSE "mov_open"
    /\ UNCHANGED <<args, err, cfg, routine, mov, cdf, ret, stdout, util>>
    /\ UNCHANGED <<view, proxies, registered, shown, display, tfs, camera>>

-----------------------------------------------------------------------------
(* utils.py: scale_input, and things.py: programmable_filter               *)

SetMin(S) == CHOOSE m \in S : \A n \in S : m <= n
SetMax(S) == CHOOSE m \in S : \A n \in S : n <= m
Range(q) == {q[i] : i \in DOMAIN q}

\* Python truth of a factor that may be None: None and 0 are false
Truthy(s) == s /= None /\ s[1].num /= 0

\* v * f for a factor f = num/den; the data of the model divide evenly
Mul(v, f) == (v * f.num) \div f.den

\* the point data the generated script leaves in the filter's output:
\* lines 77-131 of utils.py, None factors replaced by 1 (lines 87-90)
scale_input(data, scale_data, scale_coords, zero_origin) ==
    LET sd == IF scale_data = None THEN Frac(1, 1) ELSE scale_data[1]
        sc == IF scale_coords = None THEN Frac(1, 1) ELSE scale_coords[1]
        min_x == SetMin(Range(data.x))
        min_y == SetMin(Range(data.y))
        cx(i) == LET x == IF zero_origin THEN data.x[i] - min_x ELSE data.x[i]
                 IN  IF sc.num /= 0 THEN Mul(x, sc) ELSE x
        cy(i) == LET y == IF zero_origin THEN data.y[i] - min_y ELSE data.y[i]
                 IN  IF sc.num /= 0 THEN Mul(y, sc) ELSE y
        cz(i) == IF sc.num /= 0 THEN Mul(data.z[i], sc) ELSE data.z[i]
    IN  [x |-> [i \in DOMAIN data.x |-> cx(i)],
         y |-> [i \in DOMAIN data.y |-> cy(i)],
         z |-> [i \in DOMAIN data.z |-> cz(i)],
         v |-> [i \in DOMAIN data.v |-> Mul(data.v[i], sd)]]

FilterName == <<"ProgrammableFilter">>

\* the proxy programmable_filter(data, script) registers, given the output
\* its script computes
programmable_filter(input, out) ==
    Proxy(FilterName, "ProgrammableFilter", None, input, out, None)

-----------------------------------------------------------------------------
(* datafile.py: CartesianDataFile                                          *)

\* the registration name OpenDataFile gives a reader: the file's base name
Basename(p) ==
    LET seps == {i \in DOMAIN p : p[i] = "/"}
    IN  IF seps = {} THEN p ELSE SubSeq(p, SetMax(seps) + 1, Len(p))

\* lines 30 and 61: whether the constructor runs the scaling filter step
NeedsScaling_notnone(scale_data, scale_coords) ==
    scale_data /= None \/ scale_coords /= None

NeedsScaling(scale_data, scale_coords) ==
    Truthy(scale_data) \/ Truthy(scale_coords)

\* _get_coordinates and _get_data_minmax of a fetched output
Coordinates(out) == <<out.x, out.y, out.z>>
DataMinMax(out) == <<SetMin(Range(out.v)), SetMax(Range(out.v))>>

\* CartesianDataFile.__init__: open, scale, cache, show. In the host the
\* filter step shows the raw reader and the filter and hides both again;
\* the last Show is of the handle kept in self.data.
CartesianDataFile_init_rawshown(fid, scale_data, scale_coords, zero_origin) ==
    LET raw    == Len(proxies) + 1
        scaled == NeedsScaling(scale_data, scale_coords)
        rawP   == Proxy(Basename(fid), "Reader", Abs(fid), 0,
                        Dataset(Abs(fid)), None)
        filtP  == programmable_filter(raw,
                      scale_input(rawP.out, scale_data, scale_coords,
                                  zero_origin))
        handle == IF scaled THEN raw + 1 ELSE raw
        out    == IF scaled THEN filtP.out ELSE rawP.out
    IN  /\ proxies' = IF scaled THEN proxies \o <<rawP, filtP>>
                                ELSE Append(proxies, rawP)
        /\ registered' = registered \cup (raw .. handle)
        /\ shown' = shown \cup {raw, handle}
        /\ view' = (view \/ scaled)
        /\ display' = IF scaled THEN display \o << <<1, 1, 1>>, <<1, 1, 1>> >>
                                ELSE Append(display, <<1, 1, 1>>)
        /\ cdf' = [made        |-> TRUE,
                   fid         |-> fid,
                   data        |-> handle,
                   data_coords |-> Coordinates(out),
                   data_bounds |-> DataMinMax(out),
                   display     |-> handle]

CartesianDataFile_init(fid, scale_data, scale_coords, zero_origin) ==
    LET raw    == Len(proxies) + 1
        scaled == NeedsScaling(scale_data, scale_coords)
        rawP   == Proxy(Basename(fid), "Reader", Abs(fid), 0,
                        Dataset(Abs(fid)), None)
        filtP  == programmable_filter(raw,
                      scale_input(rawP.out, scale_data, scale_coords,
                                  zero_origin))
        handle == IF scaled THEN raw + 1 ELSE raw
        out    == IF scaled THEN filtP.out ELSE rawP.out
    IN  /\ proxies' = IF scaled THEN proxies \o <<rawP, filtP>>
                                ELSE Append(proxies, rawP)
        /\ registered' = registered \cup (raw .. handle)
        /\ shown' = (shown \ {raw}) \cup {handle}
        /\ view' = (view \/ scaled)
        /\ display' = IF scaled THEN display \o << <<1, 1, 1>>, <<1, 1, 1>> >>
                                ELSE Append(display, <<1, 1, 1>>)
        /\ cdf' = [made        |-> TRUE,
                   fid         |-> fid,
                   data        |-> handle,
                   data_coords |-> Coordinates(out),
                   data_bounds |-> DataMinMax(out),
                   display     |-> handle]

\* the center property: per axis (max + min) / 2, as a fraction
center(obj) ==
    [i \in 1..3 |->
        Frac(SetMax(Range(obj.data_coords[i])) + SetMin(Range(obj.data_coords[i])), 2)]

\* the stats property: one printed line per axis and one for the values
stats(obj) ==
    [i \in 1..3 |->
        <<i - 1, SetMin(Range(obj.data_coords[i])),
          SetMax(Range(obj.data_coords[i])), Len(obj.data_coords[i])>>]
    \o << <<"vals", obj.data_bounds>> >>

SliceName == <<"Slice">>

\* depth_slice(depth, hide_original): a Slice of self.data with its plane
\* moved to z = depth, shown; self.data hidden on request. Returns the slice.
depth_slice_rebinds(depth, hide_original) ==
    LET id == Len(proxies) + 1
        c  == center(cdf)
    IN  /\ proxies' = Append(proxies,
                 Proxy(SliceName, "Slice", None, cdf.data, NoData,
                       <<c[1], c[2], depth>>))
        /\ registered' = registered \cup {id}
        /\ display' = Append(display, <<1, 1, 1>>)
        /\ shown' = IF hide_original THEN (shown \cup {id}) \ {cdf.data}
                                     ELSE shown \cup {id}
        /\ cdf' = [cdf EXCEPT !.data = id]
        /\ ret' = [fn |-> "depth_slice", val |-> id, hide |-> hide_original]

depth_slice(depth, hide_original) ==
    LET id == Len(proxies) + 1
        c  == center(cdf)
    IN  /\ proxies' = Append(proxies,
                 Proxy(SliceName, "Slice", None, cdf.data, NoData,
                       <<c[1], c[2], depth>>))
        /\ registered' = registered \cup {id}
        /\ display' = Append(display, <<1, 1, 1>>)
        /\ shown' = IF hide_original THEN (shown \cup {id}) \ {cdf.data}
                                     ELSE shown \cup {id}
        /\ cdf' = cdf
        /\ ret' = [fn |-> "depth_slice", val |-> id, hide |-> hide_original]

-----------------------------------------------------------------------------
(* main.py: cartesian                                                      *)

\* lines 93-97; OpenDataFile raises when there is no such file
cartesian_open ==
    /\ pc = "cartesian"
    /\ IF Exists(args.fid, fs)
       THEN /\ CartesianDataFile_init(args.fid, cfg.scale_data,
                                      cfg.scale_coords, cfg.zero_origin)
            /\ log' = Append(log,
                   [ev |-> "open", file |-> args.fid, path |-> <<>>])
            /\ pc' = "cart_slice"
            /\ err' = err
       ELSE /\ pc' = "aborted"
            /\ err' = [by |-> "OpenDataFile", exc |-> "RuntimeError",
                       msg |-> args.fid]
            /\ UNCHANGED <<cdf, log, view, proxies, registered, shown, display>>
    /\ UNCHANGED <<args, fs, cfg, routine, queue, mov, ret, stdout, util>>
    /\ UNCHANGED <<tfs, camera, screenshots>>

\* line 100
cartesian_slice ==
    /\ pc = "cart_slice"
    /\ depth_slice(-5, TRUE)
    /\ log' = Append(log, [ev |-> "transform", file |-> cdf.fid, path |-> <<>>])
    /\ pc' = "cart_color"
    /\ UNCHANGED <<args, fs, err, cfg, routine, queue, mov, stdout, util>>
    /\ UNCHANGED <<view, tfs, camera, screenshots>>

\* lines 103-118: the calls of colormap and colorbar; what colorstuff does
\* in the host is outside the model, which keeps the step and its place
cartesian_color ==
    /\ pc = "cart_color"
    /\ tfs' = tfs
    /\ log' = Append(log, [ev |-> "transform", file |-> cdf.fid, path |-> <<>>])
    /\ pc' = "cart_camera"
    /\ UNCHANGED <<args, fs, err, cfg, routine, queue, mov, cdf, ret, stdout, util>>
    /\ UNCHANGED <<view, proxies, registered, shown, display, camera, screenshots>>

\* lines 121-122
cartesian_camera ==
    /\ pc = "cart_camera"
    /\ ret' = [fn |-> "center", val |-> center(cdf)]
    /\ camera' = camera + 1
    /\ log' = Append(log, [ev |-> "camera", file |-> <<>>, path |-> <<>>])
    /\ pc' = "cart_screenshot"
    /\ UNCHANGED <<args, fs, err, cfg, routine, queue, mov, cdf, stdout, util>>
    /\ UNCHANGED <<view, proxies, registered, shown, display, tfs, screenshots>>

\* lines 128-129
cartesian_screenshot ==
    /\ pc = "cart_screenshot"
    /\ LET path == Join(args.output, args.fid_out) IN
       /\ screenshot(path)
       /\ log' = Append(log, [ev |-> "save", file |-> cdf.fid, path |-> path])
    /\ pc' = "done"
    /\ UNCHANGED <<args, err, cfg, routine, queue, mov, cdf, ret, stdout, util>>
    /\ UNCHANGED <<view, proxies, registered, shown, display, tfs, camera>>

-----------------------------------------------------------------------------
(* things.py: ruler, text, point_source, glyphs                            *)

\* ruler(...): the Ruler is registered under reg_name and shown before the
\* assertion on graduation and ticknum is reached (lines 36-43)
ruler(graduation, ticknum, reg_name) ==
    LET id    == Len(proxies) + 1
        fails == graduation = None /\ ticknum = None
        props == IF fails THEN None
                 ELSE IF ticknum /= None /\ ticknum[1] /= 0
                      THEN [NumberOfTicks |-> ticknum[1]]
                      ELSE [RulerMode |-> 1, Graduation |-> graduation]
    IN  /\ proxies' = Append(proxies, Proxy(reg_name, "Ruler", None, 0, NoData, props))
        /\ registered' = registered \cup {id}
        /\ shown' = shown \cup {id}
        /\ display' = Append(display, <<1, 1, 1>>)
        /\ IF fails
           THEN /\ pc' = "aborted"
                /\ err' = [by |-> "ruler", exc |-> "AssertionError",
                           msg |-> <<"Ruler requires graduation or ticknum">>]
                /\ ret' = [fn |-> "ruler", raised |-> TRUE]
           ELSE /\ pc' = pc
                /\ err' = err
                /\ ret' = [fn |-> "ruler", val |-> id]

\* text(s, position, ..., reg_name): a Text source, shown
text(reg_name) ==
    LET id == Len(proxies) + 1 IN
    /\ proxies' = Append(proxies, Proxy(reg_name, "Text", None, 0, NoData, None))
    /\ registered' = registered \cup {id}
    /\ shown' = shown \cup {id}
    /\ display' = Append(display, <<1, 1, 1>>)
    /\ ret' = [fn |-> "text", val |-> id]

\* point_source(origin, reg_name): a PointSource, not shown
point_source(reg_name) ==
    LET id == Len(proxies) + 1 IN
    /\ proxies' = Append(proxies, Proxy(reg_name, "PointSource", None, 0, NoData, None))
    /\ registered' = registered \cup {id}
    /\ shown' = shown
    /\ display' = Append(display, <<1, 1, 1>>)
    /\ ret' = [fn |-> "point_source", val |-> id]

PointName == <<"point">>

\* glyphs(origin, type, ..., reg_name) for a list origin: a point source
\* under its default name, and a Glyph of it, shown; returns nothing
glyphs(reg_name) ==
    LET pt == Len(proxies) + 1
        id == Len(proxies) + 2
    IN  /\ proxies' = proxies \o
              << Proxy(PointName, "PointSource", None, 0, NoData, None),
                 Proxy(reg_name, "Glyph", None, pt, NoData, None) >>
        /\ registered' = registered \cup {pt, id}
        /\ shown' = shown \cup {id}
        /\ display' = display \o << <<1, 1, 1>>, <<1, 1, 1>> >>
        /\ ret' = [fn |-> "glyphs", val |-> None]

-----------------------------------------------------------------------------
(* actions.py: delete_objects                                              *)

\* Python's `name in src` on strings
IsSubstr(n, str) ==
    \E i \in 0..(Len(str) - Len(n)) : SubSeq(str, i + 1, i + Len(n)) = n

DefaultNames == << <<"ruler">>, <<"point">>, <<"glyph">> >>

\* lines 39-40; a list of names that may be None is carried as <<list>>
NamesOrDefault(names) == IF names = None THEN DefaultNames ELSE names[1]

\* Line 42 iterates over GetSources().keys. GetSources() returns a dict, and
\* its attribute keys, which the line does not call, is a bound method: the
\* for clause of the list comprehension raises TypeError, before any name is
\* tested and before FindSource or Delete is reached.
delete_objects(names) ==
    /\ pc' = "aborted"
    /\ err' = [by |-> "delete_objects", exc |-> "TypeError",
               msg |-> <<"'builtin_function_or_method' object is not iterable">>]
    /\ ret' = [fn |-> "delete_objects", names |-> NamesOrDefault(names),
               raised |-> TRUE]
    /\ UNCHANGED <<proxies, registered, shown, display>>

-----------------------------------------------------------------------------
(* The library called from a script: once the render view is set up, any   *)
(* sequence of calls, each logged, until one raises.                       *)

MaxCalls == 3

CanCall == pc = "lib" /\ Len(log) < MaxCalls

Logged(fn) == log' = Append(log, [ev |-> fn, file |-> <<>>, path |-> <<>>])

FactorChoices == { None, <<Frac(0, 1)>>, <<Frac(1, 1000)>>, <<Frac(2, 1)>> }

lib_CartesianDataFile ==
    /\ CanCall
    /\ ~cdf.made
    /\ \E fid \in { <<"a", ".inp">>, FileB },
          sd \in FactorChoices, sc \in FactorChoices, zo \in BOOLEAN :
          /\ CartesianDataFile_init(fid, sd, sc, zo)
          /\ ret' = [fn |-> "CartesianDataFile", fid |-> fid,
                     scale_data |-> sd, scale_coords |-> sc,
                     zero_origin |-> zo]
    /\ Logged("CartesianDataFile")
    /\ UNCHANGED <<args, fs, pc, err, cfg, routine, queue, mov, stdout, util>>
    /\ UNCHANGED <<tfs, camera, screenshots>>

lib_depth_slice ==
    /\ CanCall
    /\ cdf.made
    /\ \E depth \in {-5, 0}, hide_original \in BOOLEAN :
          depth_slice(depth, hide_original)
    /\ Logged("depth_slice")
    /\ UNCHANGED <<args, fs, pc, err, cfg, routine, queue, mov, stdout, util>>
    /\ UNCHANGED <<view, tfs, camera, screenshots>>

lib_center ==
    /\ CanCall
    /\ cdf.made
    /\ ret' = [fn |-> "center", val |-> center(cdf)]
    /\ Logged("center")
    /\ UNCHANGED <<args, fs, pc, err, cfg, routine, queue, mov, cdf, stdout, util>>
    /\ UNCHANGED hostvars

lib_stats ==
    /\ CanCall
    /\ cdf.made
    /\ stdout' = stdout \o stats(cdf)
    /\ ret' = [fn |-> "stats", val |-> None]
    /\ Logged("stats")
    /\ UNCHANGED <<args, fs, pc, err, cfg, routine, queue, mov, cdf, util>>
    /\ UNCHANGED hostvars

lib_ruler ==
    /\ CanCall
    /\ \E graduation \in {None, <<2>>}, ticknum \in {None, <<5>>},
          reg_name \in { <<"ruler">>, <<"ruler", "_1">>, <<"scalebar">> } :
          ruler(graduation, ticknum, reg_name)
    /\ Logged("ruler")
    /\ UNCHANGED <<args, fs, cfg, routine, queue, mov, cdf, stdout, util>>
    /\ UNCHANGED <<view, tfs, camera, screenshots>>

lib_text ==
    /\ CanCall
    /\ text(<<"text">>)
    /\ Logged("text")
    /\ UNCHANGED <<args, fs, pc, err, cfg, routine, queue, mov, cdf, stdout, util>>
    /\ UNCHANGED <<view, tfs, camera, screenshots>>

lib_point_source ==
    /\ CanCall
    /\ \E reg_name \in { PointName, <<"end", "point">> } : point_source(reg_name)
    /\ Logged("point_source")
    /\ UNCHANGED <<args, fs, pc, err, cfg, routine, queue, mov, cdf, stdout, util>>
    /\ UNCHANGED <<view, tfs, camera, screenshots>>

lib_glyphs ==
    /\ CanCall
    /\ glyphs(<<"glyph">>)
    /\ Logged("glyphs")
    /\ UNCHANGED <<args, fs, pc, err, cfg, routine, queue, mov, cdf, stdout, util>>
    /\ UNCHANGED <<view, tfs, camera, screenshots>>

lib_delete_objects ==
    /\ CanCall
    /\ \E names \in { None, << << <<"ruler">> >> >>,
                         << << <<"Slice">>, <<"text">> >> >> } :
          delete_objects(names)
    /\ Logged("delete_objects")
    /\ UNCHANGED <<args, fs, cfg, routine, queue, mov, cdf, stdout, util>>
    /\ UNCHANGED <<view, tfs, camera, screenshots>>

-----------------------------------------------------------------------------
(* The program as run: pvpython main.py <args>                             *)

NoUtil == [fn |-> "none"]

InitMain ==
    /\ args \in ArgsChoices
    /\ \E F \in SUBSET DataFiles, C \in SUBSET {ConfigPy},
          O \in SUBSET {Abs(args.output)} :
          fs = BaseDirs \cup F \cup C \cup O
    /\ pc = "parse_args"
    /\ err = NoErr
    /\ cfg = NoCfg
    /\ routine = "none"
    /\ queue = <<>>
    /\ mov = NoObj
    /\ cdf = NoObj
    /\ ret = NoRet
    /\ view = FALSE
    /\ proxies = <<>>
    /\ registered = {}
    /\ shown = {}
    /\ display = <<>>
    /\ tfs = [lut |-> NoTF, pwf |-> NoTF]
    /\ camera = 0
    /\ screenshots = <<>>
    /\ stdout = <<>>
    /\ log = <<>>
    /\ util = NoUtil

Next ==
    \/ parse_args
    \/ setup
    \/ main
    \/ movie_frame
    \/ movie_open
    \/ movie_rescale
    \/ movie_camera
    \/ movie_screenshot

Spec == InitMain /\ [][Next]_vars

-----------------------------------------------------------------------------
(* The two plotting routines, each called after parse_args and setup: the  *)
(* program as run, and cartesian() called in place of movie_frame().       *)

call_routine ==
    /\ pc = "main"
    /\ routine' \in {"cartesian", "movie_frame"}
    /\ pc' = routine'
    /\ UNCHANGED <<args, fs, err, cfg, queue, mov, cdf, ret, stdout, log, util>>
    /\ UNCHANGED hostvars

NextRoutines ==
    \/ parse_args
    \/ setup
    \/ call_routine
    \/ movie_frame
    \/ movie_open
    \/ movie_rescale
    \/ movie_camera
    \/ movie_screenshot
    \/ cartesian_open
    \/ cartesian_slice
    \/ cartesian_color
    \/ cartesian_camera
    \/ cartesian_screenshot

SpecRoutines == InitMain /\ [][NextRoutines]_vars

-----------------------------------------------------------------------------
(* Properties of a run of the script.                                      *)

\* p lies inside directory dir (both resolved at the working directory)
Inside(p, dir) ==
    LET a == Abs(p)
        d == Abs(dir)
    IN  /\ Len(a) > Len(d) + 1
        /\ SubSeq(a, 1, Len(d)) = d
        /\ a[Len(d) + 1] = "/"

HasEv(e) == \E i \in DOMAIN log : log[i].ev = e

\* the primary data sources open in the host: readers created by
\* OpenDataFile or AVSUCDReader and still registered
PrimaryOpen ==
    {i \in registered : proxies[i].kind \in {"Reader", "AVSUCDReader"}}

\* C1: once __main__ has called a plotting routine, it is movie_frame when
\* the movie option was given and cartesian when it was not.
C1_DispatchOnMovie ==
    routine /= "none" =>
        routine = (IF args.movie THEN "movie_frame" ELSE "cartesian")

\* C2 as stated: whatever the options, a run whose input path does not
\* exist is, once parse_args is over, aborted by check with the message
\* "<fid> does not exist", no data file opened and no screenshot saved.
C2_AbortsWhenFidMissing_AnyOption ==
    (pc /= "parse_args" /\ ~Exists(args.fid, fs)) =>
        /\ pc = "aborted"
        /\ err = [by |-> "check", exc |-> "AssertionError",
                  msg |-> args.fid \o <<" does not exist">>]
        /\ proxies = <<>>
        /\ screenshots = <<>>

\* C2 amended: when the movie option is not given, a run whose input path
\* does not exist is, once parse_args is over, aborted by check with the
\* message "<fid> does not exist", no data file opened and no screenshot
\* saved.
C2_AbortsWhenFidMissing ==
    (pc /= "parse_args" /\ ~args.movie /\ ~Exists(args.fid, fs)) =>
        /\ pc = "aborted"
        /\ err = [by |-> "check", exc |-> "AssertionError",
                  msg |-> args.fid \o <<" does not exist">>]
        /\ proxies = <<>>
        /\ screenshots = <<>>

C2_Witness ==
    /\ ~args.movie
    /\ ~Exists(args.fid, fs)
    /\ pc = "aborted"
    /\ err.by = "check"

\* C3: when the configuration file does not exist, the render view is never
\* created, no data file is opened and no screenshot is saved; and once
\* parse_args has returned and setup has run, the run is aborted by setup
\* with a message that names the configuration file.
C3_AbortsWhenConfigMissing ==
    ~Exists(args.cfg_fid, fs) =>
        /\ ~view
        /\ proxies = <<>>
        /\ screenshots = <<>>
        /\ ~cfg.loaded
        /\ (HasEv("parse") /\ pc /= "setup") =>
              /\ pc = "aborted"
              /\ err.by = "setup"
              /\ err.exc = "AssertionError"
              /\ SubSeq(err.msg, 2, Len(err.msg)) = args.cfg_fid

C3_Witness ==
    /\ ~Exists(args.cfg_fid, fs)
    /\ pc = "aborted"
    /\ err.by = "setup"

\* C4: every screenshot saved lies inside the output directory.
C4_ScreenshotsInsideOutput ==
    \A i \in DOMAIN screenshots : Inside(screenshots[i].path, args.output)

C8_AtMostOnePrimaryOpen == Cardinality(PrimaryOpen) <= 1

IsSave(e) == e.ev = "save"

-----------------------------------------------------------------------------
(* The library specification.                                              *)

InitLib ==
    /\ args = [fid |-> <<"a", ".inp">>, cfg_fid |-> <<"config", ".py">>,
               movie |-> FALSE, verbose |-> FALSE, output |-> <<"o">>,
               fid_out |-> <<"a", ".inp", ".png">>]
    /\ fs = BaseDirs \cup DataFiles \cup {ConfigPy, Abs(<<"o">>)}
    /\ pc = "lib"
    /\ err = NoErr
    /\ cfg = config
    /\ routine = "none"
    /\ queue = <<>>
    /\ mov = NoObj
    /\ cdf = NoObj
    /\ ret = NoRet
    /\ view = TRUE
    /\ proxies = <<>>
    /\ registered = {}
    /\ shown = {}
    /\ display = <<>>
    /\ tfs = [lut |-> NoTF, pwf |-> NoTF]
    /\ camera = 0
    /\ screenshots = <<>>
    /\ stdout = <<>>
    /\ log = <<>>
    /\ util = NoUtil

NextLib ==
    \/ lib_CartesianDataFile
    \/ lib_depth_slice
    \/ lib_center
    \/ lib_stats
    \/ lib_ruler
    \/ lib_text
    \/ lib_point_source
    \/ lib_glyphs
    \/ lib_delete_objects

SpecLib == InitLib /\ [][NextLib]_vars

-----------------------------------------------------------------------------
(* utils.py: myround and translate_point                                   *)

\* math.floor, math.ceil and round of the quotient float(x) / base for an
\* integer x and a positive integer base; round is Python 3's, which
\* takes a tie to the even neighbour. Within the bounds examined the float
\* quotient has the floor, ceiling and nearest integer of the exact one.
FloorDiv(x, base) == x \div base
CeilDiv(x, base) == -((-x) \div base)
RoundDiv(x, base) ==
    LET q == x \div base
        r == x % base
    IN  IF 2 * r < base THEN q
        ELSE IF 2 * r > base THEN q + 1
        ELSE IF q % 2 = 0 THEN q ELSE q + 1

\* a choice that may be None is carried as <<choice>>
myround_upbyone(x, base, choice) ==
    IF choice = <<"up">> THEN base * (FloorDiv(x, base) + 1)
    ELSE IF choice = <<"down">> THEN base * FloorDiv(x, base)
    ELSE base * RoundDiv(x, base)

myround(x, base, choice) ==
    IF choice = <<"up">> THEN base * CeilDiv(x, base)
    ELSE IF choice = <<"down">> THEN base * FloorDiv(x, base)
    ELSE base * RoundDiv(x, base)

\* a parameter left out of the call takes its default
OrDefault(a, d) == IF a = None THEN d ELSE a[1]

\* translate_point(data, x0=0, y0=0, z0=0, scale=1): the list returned, the
\* argument as the call leaves it, and whether the list returned is the
\* argument itself
translate_point_scalefirst(data, x0, y0, z0, scale) ==
    [ret  |-> << data[1] * OrDefault(scale, 1) - OrDefault(x0, 0),
                 data[2] * OrDefault(scale, 1) - OrDefault(y0, 0),
                 data[3] * OrDefault(scale, 1) - OrDefault(z0, 0) >>,
     data |-> data,
     same |-> FALSE]

translate_point(data, x0, y0, z0, scale) ==
    [ret  |-> << (data[1] - OrDefault(x0, 0)) * OrDefault(scale, 1),
                 (data[2] - OrDefault(y0, 0)) * OrDefault(scale, 1),
                 (data[3] - OrDefault(z0, 0)) * OrDefault(scale, 1) >>,
     data |-> data,
     same |-> FALSE]

-----------------------------------------------------------------------------
(* The utilities called on their own.                                      *)

MaxX == 7
MaxBase == 4
MaxCoord == 1

ChoiceChoices == { None, <<"up">>, <<"down">>, <<"nearest">> }

util_myround ==
    /\ util.fn = "none"
    /\ \E x \in -MaxX..MaxX, base \in 0..MaxBase, choice \in ChoiceChoices :
          util' = IF base = 0
                  THEN [fn |-> "myround", x |-> x, base |-> base,
                        choice |-> choice, raised |-> "ZeroDivisionError",
                        res |-> 0, again |-> None]
                  ELSE [fn |-> "myround", x |-> x, base |-> base,
                        choice |-> choice, raised |-> "none",
                        res |-> myround(x, base, choice), again |-> None]
    /\ UNCHANGED pyvars /\ UNCHANGED hostvars /\ UNCHANGED fs

\* the result rounded once more, with the same base and choice
util_myround_again ==
    /\ util.fn = "myround"
    /\ util.raised = "none"
    /\ util.again = None
    /\ util' = [util EXCEPT
                  !.again = << myround(util.res, util.base, util.choice) >>]
    /\ UNCHANGED pyvars /\ UNCHANGED hostvars /\ UNCHANGED fs

Coords == -MaxCoord..MaxCoord
OptCoords == {None} \cup {<<c>> : c \in Coords}
ScaleChoices == { None, <<1>>, <<2>>, <<0>>, <<-1>> }

util_translate_point ==
    /\ util.fn = "none"
    /\ \E data \in Coords \X Coords \X Coords,
          x0 \in OptCoords, y0 \in OptCoords, z0 \in OptCoords,
          scale \in ScaleChoices :
          LET r == translate_point(data, x0, y0, z0, scale) IN
          util' = [fn |-> "translate_point", data0 |-> data,
                   x0 |-> x0, y0 |-> y0, z0 |-> z0, scale |-> scale,
                   data |-> r.data, same |-> r.same, res |-> r.ret,
                   back |-> None]
    /\ UNCHANGED pyvars /\ UNCHANGED hostvars /\ UNCHANGED fs

\* the result translated by the opposite vector, with the same scale
util_translate_back ==
    /\ util.fn = "translate_point"
    /\ util.back = None
    /\ util' = [util EXCEPT !.back =
                  << translate_point(util.res,
                                     << -OrDefault(util.x0, 0) >>,
                                     << -OrDefault(util.y0, 0) >>,
                                     << -OrDefault(util.z0, 0) >>,
                                     util.scale).ret >>]
    /\ UNCHANGED pyvars /\ UNCHANGED hostvars /\ UNCHANGED fs

InitUtil ==
    /\ args = [fid |-> <<"a", ".inp">>, cfg_fid |-> <<"config", ".py">>,
               movie |-> FALSE, verbose |-> FALSE, output |-> <<"o">>,
               fid_out |-> None]
    /\ fs = BaseDirs \cup DataFiles \cup {ConfigPy}
    /\ pc = "util"
    /\ err = NoErr
    /\ cfg = NoCfg
    /\ routine = "none"
    /\ queue = <<>>
    /\ mov = NoObj
    /\ cdf = NoObj
    /\ ret = NoRet
    /\ view = FALSE
    /\ proxies = <<>>
    /\ registered = {}
    /\ shown = {}
    /\ display = <<>>
    /\ tfs = [lut |-> NoTF, pwf |-> NoTF]
    /\ camera = 0
    /\ screenshots = <<>>
    /\ stdout = <<>>
    /\ log = <<>>
    /\ util = NoUtil

NextUtil ==
    \/ util_myround
    \/ util_myround_again
    \/ util_translate_point
    \/ util_translate_back

SpecUtil == InitUtil /\ [][NextUtil]_vars

-----------------------------------------------------------------------------
(* Properties of the library and of the utilities.                         *)

\* C6: after a call of delete_objects(names), no source whose registration
\* name contains one of the names (the defaults when names is omitted) is
\* still registered.
C6_DeleteObjectsDeletesMatching ==
    ret.fn = "delete_objects" =>
        \A i \in registered :
            ~\E k \in DOMAIN ret.names : IsSubstr(ret.names[k], proxies[i].name)

\* C7: once a CartesianDataFile is constructed, no call changes its data
\* handle, its cached coordinates or its cached value range, nor the proxy
\* the handle names; and depth_slice returns a proxy that did not exist
\* before, a Slice whose input is the handle, and not the handle itself.
C7_FrameAfterConstruction ==
    [][cdf.made =>
          /\ cdf'.made
          /\ cdf'.data = cdf.data
          /\ cdf'.data_coords = cdf.data_coords
          /\ cdf'.data_bounds = cdf.data_bounds
          /\ proxies'[cdf.data] = proxies[cdf.data]
          /\ (log' /= log /\ ret'.fn = "depth_slice") =>
                /\ ret'.val \notin DOMAIN proxies
                /\ ret'.val \in DOMAIN proxies'
                /\ ret'.val /= cdf'.data
                /\ proxies'[ret'.val].kind = "Slice"
                /\ proxies'[ret'.val].input = cdf.data]_vars

C7_Witness ==
    /\ cdf.made
    /\ Len(log) = 3
    /\ log[2].ev = "depth_slice"
    /\ log[3].ev \in {"center", "stats"}
    /\ proxies[cdf.data].kind = "ProgrammableFilter"

\* C12: the constructor runs the scaling filter step exactly when
\* scale_data or scale_coords is given and is not zero. Then the handle is
\* the filter, fed by the reader of the file, and a factor left as None
\* leaves the values (scale_data) or, without zero_origin, the coordinates
\* (scale_coords) as read; otherwise the handle is the reader itself and
\* zero_origin changes nothing. In both cases the cached coordinates and
\* the cached value range are those of the handle's output.
C12_ScalingStep ==
    ret.fn = "CartesianDataFile" =>
        LET h      == proxies[cdf.data]
            raw    == Dataset(Abs(ret.fid))
            sd     == ret.scale_data
            sc     == ret.scale_coords
            scaled == h.kind = "ProgrammableFilter"
        IN  /\ scaled <=> \/ (sd /= None /\ sd[1].num /= 0)
                          \/ (sc /= None /\ sc[1].num /= 0)
            /\ cdf.data_coords = <<h.out.x, h.out.y, h.out.z>>
            /\ \A i \in DOMAIN h.out.v :
                  /\ cdf.data_bounds[1] <= h.out.v[i]
                  /\ h.out.v[i] <= cdf.data_bounds[2]
            /\ \E i, j \in DOMAIN h.out.v :
                  cdf.data_bounds = <<h.out.v[i], h.out.v[j]>>
            /\ scaled =>
                  /\ proxies[h.input].kind = "Reader"
                  /\ proxies[h.input].out = raw
                  /\ sd = None => h.out.v = raw.v
                  /\ (sc = None /\ ~ret.zero_origin) =>
                        cdf.data_coords = <<raw.x, raw.y, raw.z>>
            /\ ~scaled =>
                  /\ h.kind = "Reader"
                  /\ h.out = raw
                  /\ cdf.data_coords = <<raw.x, raw.y, raw.z>>

C12_Witness ==
    /\ ret.fn = "CartesianDataFile"
    /\ ret.fid = <<"a", ".inp">>
    /\ ret.scale_data = None
    /\ ret.scale_coords = <<Frac(1, 1000)>>
    /\ ~ret.zero_origin
    /\ proxies[cdf.data].kind = "ProgrammableFilter"
    /\ cdf.data_coords = << <<1, 3>>, <<2, 6>>, <<-5, 0>> >>
    /\ cdf.data_bounds = <<3000, 5000>>

\* the Ruler proxies among a set of proxy ids, and the calls of ruler made
Rulers(ids) == {i \in ids : proxies[i].kind = "Ruler"}
RulerCalls == {k \in DOMAIN log : log[k].ev = "ruler"}

\* C13: a call of ruler() with neither graduation nor ticknum fails with
\* the assertion "Ruler requires graduation or ticknum" and leaves the host
\* as it was: the rulers registered and the rulers shown are those of the
\* earlier calls, the failed call having added none.
C13_RulerFailureLeavesHostUnchanged ==
    (ret.fn = "ruler" /\ err.by = "ruler") =>
        /\ err.exc = "AssertionError"
        /\ err.msg = <<"Ruler requires graduation or ticknum">>
        /\ Cardinality(Rulers(registered)) = Cardinality(RulerCalls) - 1
        /\ Cardinality(Rulers(shown)) = Cardinality(RulerCalls) - 1

\* C14: a constructor call that ran the scaling filter leaves the raw
\* reader hidden and the handle (the filter) shown. A depth_slice call on
\* such a file shows the slice it returns and leaves the raw reader hidden;
\* with hide_original the slice is the only one of raw reader, filter and
\* slice that is visible; without it the handle keeps its visibility, and is
\* visible whenever no earlier depth_slice call has hidden it.
C14_Visibility ==
    [][/\ (log' /= log /\ ret'.fn = "CartesianDataFile"
              /\ proxies'[cdf'.data].kind = "ProgrammableFilter") =>
             /\ cdf'.data \in shown'
             /\ proxies'[cdf'.data].input \notin shown'
       /\ (log' /= log /\ ret'.fn = "depth_slice" /\ cdf.made
              /\ proxies[cdf.data].kind = "ProgrammableFilter") =>
             LET h   == cdf.data
                 raw == proxies[cdf.data].input
                 sl  == ret'.val
             IN  /\ sl \notin {h, raw}
                 /\ sl \in shown'
                 /\ raw \notin shown'
                 /\ ret'.hide => shown' \cap {raw, h, sl} = {sl}
                 /\ ~ret'.hide =>
                       /\ h \in shown => h \in shown'
                       /\ (\A k \in DOMAIN log : log[k].ev /= "depth_slice")
                             => h \in shown'
      ]_vars

C14_Witness ==
    /\ ret.fn = "depth_slice"
    /\ ret.hide
    /\ Len(log) = 2
    /\ proxies[cdf.data].kind = "ProgrammableFilter"
    /\ shown \cap {proxies[cdf.data].input, cdf.data, ret.val} = {ret.val}

Abs1(n) == IF n < 0 THEN -n ELSE n

=============================================================================
